---- MODULE Spec2Model ----
(***************************************************************************)
(* The detective game of yvr1037/Ocean5: the engine (game_engine.py), its  *)
(* driver (app.py) and the text-generation service they call               *)
(* (llm_interface.py), as one state machine.  A handler that performs      *)
(* blocking requests is cut at each request: the service's reply is a      *)
(* message in flight (llm_reply), and the step that consumes it runs the   *)
(* code up to the next request or to the end of the handler.               *)
(***************************************************************************)
EXTENDS Integers, Sequences, FiniteSets, TLC

VARIABLES
    \* GameEngine (game_engine.py)
    is_killer,                \* Agent.is_killer, by agent name
    killer,                   \* GameEngine.killer, an agent name
    conversation_history,     \* GameEngine.conversation_history, the ledger
    current_questioner_idx,   \* GameEngine.current_questioner_idx
    \* st.session_state (app.py)
    game_initialized,
    current_round,
    game_complete,
    game_log,
    votes,
    game_outcome,
    current_questioner,
    round_in_progress,
    next_action,
    voting_conducted,
    \* the running handler
    pc,                       \* "idle", or the request the handler waits on
    rr,                       \* locals of GameEngine.run_round
    cv,                       \* locals of GameEngine.conduct_voting
    llm_request,              \* prompt_vars of the run_llm_query call not yet answered
    llm_reply,                \* what run_llm_query returns or raises
    guard_returned,           \* a handler called meanwhile returned at its guard
    query,                    \* locals of run_llm_query, when it is followed inside
    \* the environment
    failures,                 \* errors that reached the driver so far
    bad_replies               \* unusable vote replies in this voting phase

vars ==
    << is_killer, killer, conversation_history, current_questioner_idx,
       game_initialized, current_round, game_complete, game_log, votes,
       game_outcome, current_questioner, round_in_progress, next_action,
       voting_conducted, pc, rr, cv, llm_request, llm_reply, guard_returned,
       query, failures, bad_replies >>

engineVars == << is_killer, killer, conversation_history, current_questioner_idx >>

(***************************************************************************)
(* Bounds of the model and constants of the program.                       *)
(***************************************************************************)
\* errors (generation failures in rounds, results-store failures) per session
MaxFailures == 1
\* largest round number run_round is called with on a new engine when the
\* engine is examined apart from the driver's counting
MaxRoundNumber == 3
\* last round in which a generation request fails; the rounds after a
\* failure are followed to the end of the game
MaxFailingRound == 4
\* vote replies per voting phase that are not a usable vote
MaxBadReplies == 3
\* rounds the driver is stepped through when voting is examined in detail
VotingSpecRounds == 3
\* agents (in registry order) that a vote reply may name in SpecVoting
NumSuspects == 3

\* app.py, line 238: the game ends once current_round exceeds this
MAX_ROUNDS == 20
\* app.py, line 170: a voting phase follows every VOTE_EVERY rounds
VOTE_EVERY == 3
\* app.py, line 213: votes a target needs to be the majority agent
QUORUM == 3
\* game_engine.py, line 169
max_attempts == 3

(***************************************************************************)
(* Agent registry.                                                         *)
(***************************************************************************)
agents ==
    << [name |-> "Openness Agent",          personality_type |-> "openness"],
       [name |-> "Conscientiousness Agent", personality_type |-> "conscientiousness"],
       [name |-> "Extraversion Agent",      personality_type |-> "extraversion"],
       [name |-> "Agreeableness Agent",     personality_type |-> "agreeableness"],
       [name |-> "Neuroticism Agent",       personality_type |-> "neuroticism"] >>

NumAgents == Len(agents)

AgentNames == { agents[i].name : i \in 1..NumAgents }

\* agents[i] of the code, whose lists are 0-based
AgentAt(i) == agents[i + 1]

\* position of a name in the registry, 0-based
IndexOf(n) == CHOOSE i \in 0..(NumAgents - 1) : AgentAt(i).name = n

None == "None"

(***************************************************************************)
(* Text.  str.strip() removes leading and trailing blanks.                 *)
(***************************************************************************)
RECURSIVE strip(_)
strip(s) ==
    IF Len(s) > 0 /\ SubSeq(s, 1, 1) = " "
    THEN strip(SubSeq(s, 2, Len(s)))
    ELSE IF Len(s) > 0 /\ SubSeq(s, Len(s), Len(s)) = " "
         THEN strip(SubSeq(s, 1, Len(s) - 1))
         ELSE s

\* part in text
Contains(text, part) ==
    \E i \in 1..(Len(text) - Len(part) + 1) : SubSeq(text, i, i + Len(part) - 1) = part

\* str.lower(), for the letters of the English alphabet
RECURSIVE Lower(_)
Lower(s) ==
    IF s = "" THEN ""
    ELSE LET upper == "ABCDEFGHIJKLMNOPQRSTUVWXYZ"
             lower == "abcdefghijklmnopqrstuvwxyz"
             c == SubSeq(s, 1, 1)
             at == { i \in 1..Len(upper) : SubSeq(upper, i, i) = c }
         IN  (IF at = {} THEN c
              ELSE LET i == CHOOSE i \in at : TRUE IN SubSeq(lower, i, i))
             \o Lower(SubSeq(s, 2, Len(s)))

(***************************************************************************)
(* Replies of run_llm_query.  kind "text" carries the returned content,    *)
(* kind "error" is an exception raised after the service's own retries.    *)
(* A vote reply's content is described by what json.loads makes of it.     *)
(***************************************************************************)
NoReply == [kind |-> "none", text |-> "", vote |-> "", reasoning |-> ""]

TextReply(t) == [kind |-> "text", text |-> t, vote |-> "", reasoning |-> ""]

ErrorReply == [kind |-> "error", text |-> "GenerationFailure", vote |-> "", reasoning |-> ""]

\* content that json.loads rejects
GarbageReply == [kind |-> "garbage", text |-> "I think it was the butler", vote |-> "", reasoning |-> ""]

\* content that parses to an object with these "vote" and "reasoning" fields
JsonReply(v, r) == [kind |-> "json", text |-> "", vote |-> v, reasoning |-> r]

QuestionReplies == { TextReply("Who lies?"), TextReply(" Who lies? ") }

AnswerReplies == { TextReply("Not me."), TextReply("  Not me. ") }

(***************************************************************************)
(* Requests to run_llm_query: the prompt_vars of the call.  The rendered   *)
(* history is a sequence of blocks, a block a sequence of lines.           *)
(***************************************************************************)
\* as HistoryBlock, the block being numbered from zero
HistoryBlockZeroBased(idx, round_data) ==
    << "[Round " \o ToString(idx) \o "]",
       round_data.questioner \o " asked: \"" \o round_data.question \o "\"" >>

\* _format_conversation_history, lines 55-58: the head of the block of the
\* record at position idx, 0-based
HistoryBlock(idx, round_data) ==
    << "[Round " \o ToString(idx + 1) \o "]",
       round_data.questioner \o " asked: \"" \o round_data.question \o "\"" >>

\* lines 59-60: one line per answer, in the order the answers were stored,
\* which is the order of the registry
AnswerLines(answers) ==
    LET responders == SelectSeq([i \in 1..NumAgents |-> agents[i].name],
                                LAMBDA n : n \in DOMAIN answers)
    IN  [i \in 1..Len(responders) |->
            responders[i] \o " answered: \"" \o answers[responders[i]] \o "\""]

\* GameEngine._format_conversation_history, lines 48-63: one block per
\* record, in the order of the ledger, each closed by an empty line
FormatConversationHistory(history) ==
    [k \in 1..Len(history) |->
        HistoryBlock(k - 1, history[k]) \o AnswerLines(history[k].answers) \o << "" >>]

\* no call of run_llm_query is waiting for the model
NoRequest ==
    [template |-> "none", agent_name |-> "", current_round |-> 0, rounds_played |-> 0,
     conversation_history |-> << >>, questioner_name |-> "", current_question |-> "",
     killer_status |-> "", retry_guidance |-> ""]

\* _generate_question, lines 105-121
QuestionRequest(agent_name, round_number, history) ==
    [NoRequest EXCEPT !.template = "question", !.agent_name = agent_name,
                      !.current_round = round_number,
                      !.conversation_history = FormatConversationHistory(history)]

\* _generate_answer, lines 130-145
AnswerRequest(agent_name, questioner_name, question, round_number, history, is_the_killer) ==
    [NoRequest EXCEPT !.template = "answer", !.agent_name = agent_name,
                      !.current_round = round_number,
                      !.conversation_history = FormatConversationHistory(history),
                      !.questioner_name = questioner_name,
                      !.current_question = question,
                      !.killer_status = IF is_the_killer THEN "the killer"
                                        ELSE "not the killer"]

\* conduct_voting, lines 183-195; formatted_history is the text made at
\* line 161, once per voter
VoteRequest(agent_name, rounds_played, formatted_history, retry_guidance) ==
    [NoRequest EXCEPT !.template = "vote", !.agent_name = agent_name,
                      !.rounds_played = rounds_played,
                      !.conversation_history = formatted_history,
                      !.retry_guidance = retry_guidance]

(***************************************************************************)
(* run_llm_query followed inside: the attempts that tenacity makes of      *)
(* execute_with_retry, each of which invokes the model once.               *)
(***************************************************************************)
\* llm_interface.py, line 57: the default, which every caller uses
max_retries == 3

\* llm.invoke returned a response with this content
Content(t) == [ok |-> TRUE, type |-> "", message |-> t]

\* an exception of this type with this str()
Raised(type, message) == [ok |-> FALSE, type |-> type, message |-> message]

NoOutcome == [ok |-> FALSE, type |-> "none", message |-> ""]

\* what one invocation of the model may end in
InvokeOutcomes ==
    { Content("Who lies?"),
      Raised("ConnectionError", "Connection reset by peer"),
      Raised("TimeoutError", "The read operation timed out"),
      Raised("RateLimitError", "Rate limit reached for requests"),
      Raised("ResourceExhausted", "429 Quota exceeded for quota metric"),
      Raised("AuthenticationError", "Incorrect API key provided") }

\* as IsRetryable, every exception being tried again
IsRetryableAny(e) == TRUE

\* lines 77-81, 87 and 119: isinstance(e, retryable_exceptions)
IsRetryable(e) == e.type \in { "ConnectionError", "TimeoutError" }

\* line 123
IsRateLimited(e) ==
    \/ Contains(Lower(e.message), "rate limit")
    \/ Contains(Lower(e.message), "quota exceeded")

\* lines 114-130: what execute_with_retry raises when llm.invoke raised e
RaisedByAttempt(e) ==
    IF IsRetryable(e) THEN e
    ELSE IF IsRateLimited(e)
    THEN Raised("ConnectionError", "Rate limiting error: " \o e.message)
    ELSE e

\* no call of run_llm_query is being followed
NoQuery ==
    [status |-> "none", attempt_number |-> 0, invoked |-> <<>>,
     pending |-> NoOutcome, result |-> NoOutcome]

(***************************************************************************)
(* Initial state: the session state of app.py before any game, lines       *)
(* 111-121.  No engine exists yet.                                         *)
(***************************************************************************)
NoRound == [round_number |-> 0, questioner |-> None, question |-> "",
            answers |-> <<>>, agent |-> 0, requests |-> <<>>]

NoVoting == [votes |-> <<>>, agent |-> 0, conversation_history |-> <<>>,
             attempt |-> 0, previous_error |-> "", recorded_error |-> "",
             retry_guidance |-> ""]

Init ==
    /\ is_killer = [n \in AgentNames |-> FALSE]
    /\ killer = None
    /\ conversation_history = <<>>
    /\ current_questioner_idx = 0
    /\ game_initialized = FALSE
    /\ current_round = 0
    /\ game_complete = FALSE
    /\ game_log = <<>>
    /\ votes = <<>>
    /\ game_outcome = <<>>
    /\ current_questioner = None
    /\ round_in_progress = FALSE
    /\ next_action = "round"
    /\ voting_conducted = FALSE
    /\ pc = "idle"
    /\ rr = NoRound
    /\ cv = NoVoting
    /\ llm_request = NoRequest
    /\ llm_reply = NoReply
    /\ guard_returned = FALSE
    /\ query = NoQuery
    /\ failures = 0
    /\ bad_replies = 0

(***************************************************************************)
(* initialize_new_game, with GameEngine.__init__: the "Start New Game"     *)
(* button, offered before the first game and after a complete one.         *)
(***************************************************************************)
\* as SelectKiller, the chosen agent's flag not being set
SelectKillerUnmarked(k) ==
    /\ killer' = k
    /\ is_killer' = [n \in AgentNames |-> FALSE]

\* GameEngine._select_killer: random.choice, then the flag of that agent
SelectKiller(k) ==
    /\ killer' = k
    /\ is_killer' = [n \in AgentNames |-> n = k]

InitializeNewGame ==
    /\ pc = "idle"
    /\ (~game_initialized) \/ game_complete
    /\ \E k \in AgentNames : SelectKiller(k)
    /\ conversation_history' = <<>>
    /\ current_questioner_idx' = 0
    /\ game_initialized' = TRUE
    /\ current_round' = 1
    /\ game_complete' = FALSE
    /\ game_log' = <<>>
    /\ votes' = <<>>
    /\ game_outcome' = <<>>
    /\ round_in_progress' = FALSE
    /\ current_questioner' = None
    /\ next_action' = "round"
    /\ voting_conducted' = FALSE
    /\ bad_replies' = 0
    /\ UNCHANGED << query, pc, rr, cv, llm_request, llm_reply, guard_returned, failures >>

(***************************************************************************)
(* run_game_round up to the question request of GameEngine.run_round.      *)
(***************************************************************************)
\* as StepOffered, the button shown after the game is complete as well
StepOfferedWhenComplete == game_initialized

\* the "Skip to Next Step" button, app.py lines 265-275
StepOffered == game_initialized /\ ~game_complete

\* a request run_round has issued: which prompt, on behalf of which agent
Requested(template, agent_name) == [template |-> template, agent_name |-> agent_name]

\* run_round, lines 69-72: the questioner is taken from the engine's own
\* index, which is advanced before any request is made
RunGameRound ==
    /\ pc = "idle"
    /\ StepOffered
    /\ next_action # "voting"
    /\ ~round_in_progress
    /\ round_in_progress' = TRUE
    /\ current_questioner' = AgentAt((current_round - 1) % NumAgents).name
    /\ LET questioner == AgentAt(current_questioner_idx).name
       IN  /\ rr' = [NoRound EXCEPT !.round_number = current_round,
                                    !.questioner = questioner,
                                    !.requests = << Requested("question", questioner) >>]
           /\ llm_request' = QuestionRequest(questioner, current_round,
                                             conversation_history)
    /\ current_questioner_idx' = (current_questioner_idx + 1) % NumAgents
    /\ pc' = "question"
    /\ UNCHANGED << query, is_killer, killer, conversation_history, game_initialized,
                    current_round, game_complete, game_log, votes, game_outcome,
                    next_action, voting_conducted, cv, llm_reply, guard_returned,
                    failures, bad_replies >>

\* everything but the note that a call returned at its guard
stateVars ==
    << is_killer, killer, conversation_history, current_questioner_idx,
       game_initialized, current_round, game_complete, game_log, votes,
       game_outcome, current_questioner, round_in_progress, next_action,
       voting_conducted, pc, rr, cv, llm_request, llm_reply, query, failures,
       bad_replies >>

\* run_game_round called while a step is running: lines 147-148
RunGameRoundWhileBusy ==
    /\ StepOffered
    /\ next_action # "voting"
    /\ round_in_progress
    /\ guard_returned' = TRUE
    /\ UNCHANGED stateVars

(***************************************************************************)
(* The text-generation service, seen from the engine: run_llm_query either *)
(* returns the model's text or raises once its own retries are used up.    *)
(***************************************************************************)
LLMReturnsText ==
    /\ pc \in {"question", "answer"}
    /\ llm_reply = NoReply
    /\ llm_reply' \in (IF pc = "question" THEN QuestionReplies ELSE AnswerReplies)
    /\ llm_request' = NoRequest
    /\ UNCHANGED << query, engineVars, game_initialized, current_round, game_complete,
                    game_log, votes, game_outcome, current_questioner,
                    round_in_progress, next_action, voting_conducted, pc, rr, cv,
                    guard_returned, failures, bad_replies >>

LLMRaises ==
    /\ pc \in {"question", "answer"}
    /\ llm_reply = NoReply
    /\ failures < MaxFailures
    /\ current_round <= MaxFailingRound
    /\ llm_reply' = ErrorReply
    /\ llm_request' = NoRequest
    /\ failures' = failures + 1
    /\ UNCHANGED << query, engineVars, game_initialized, current_round, game_complete,
                    game_log, votes, game_outcome, current_questioner,
                    round_in_progress, next_action, voting_conducted, pc, rr, cv,
                    guard_returned, bad_replies >>

(***************************************************************************)
(* GameEngine.run_round from the question's reply on, and the rest of      *)
(* run_game_round once run_round has returned or raised.                   *)
(***************************************************************************)
\* as IsResponder, the test of line 83 left out
IsResponderEveryAgent(i, questioner) == TRUE

\* run_round, line 83: the agents asked for an answer
IsResponder(i, questioner) == AgentAt(i).name # questioner

\* the first agent at or after position i that answers; NumAgents if none
NextResponder(i, questioner) ==
    LET later == { j \in i..(NumAgents - 1) : IsResponder(j, questioner) }
    IN  IF later = {} THEN NumAgents
        ELSE CHOOSE j \in later : \A k \in later : j <= k

\* as RoundData, rounds being numbered from zero
RoundDataZeroBased(round_number, questioner, question, answers) ==
    [round |-> round_number - 1, questioner |-> questioner,
     question |-> strip(question), answers |-> answers]

\* run_round, lines 92-97
RoundData(round_number, questioner, question, answers) ==
    [round |-> round_number, questioner |-> questioner,
     question |-> strip(question), answers |-> answers]

\* as NextActionAfterRound, the counter being taken before it is advanced
NextActionAfterRoundOffByOne(round) ==
    IF round % VOTE_EVERY = 0 THEN "voting" ELSE "round"

\* run_game_round, lines 170-173, with the counter already advanced
NextActionAfterRound(round) ==
    IF (round - 1) % VOTE_EVERY = 0 THEN "voting" ELSE "round"

\* as RoundFails, the round being recorded and counted in the finally block
RoundFailsRecorded ==
    /\ pc \in {"question", "answer"}
    /\ llm_reply.kind = "error"
    /\ game_log' = Append(game_log,
                          RoundData(current_round, rr.questioner, rr.question, rr.answers))
    /\ current_round' = current_round + 1
    /\ round_in_progress' = FALSE
    /\ pc' = "idle"
    /\ rr' = NoRound
    /\ llm_request' = NoRequest
    /\ llm_reply' = NoReply
    /\ guard_returned' = FALSE
    /\ UNCHANGED << query, engineVars, game_initialized, game_complete, votes, game_outcome,
                    current_questioner, next_action, voting_conducted, cv, failures,
                    bad_replies >>

\* as RoundFails, run_round making the failed request once more
RoundFailsRetried ==
    /\ pc \in {"question", "answer"}
    /\ llm_reply.kind = "error"
    /\ rr' = [rr EXCEPT !.requests = Append(rr.requests, rr.requests[Len(rr.requests)])]
    /\ llm_request' = [NoRequest EXCEPT !.template = pc]
    /\ llm_reply' = NoReply
    /\ UNCHANGED << query, engineVars, game_initialized, current_round, game_complete,
                    game_log, votes, game_outcome, current_questioner,
                    round_in_progress, next_action, voting_conducted, pc, cv,
                    guard_returned, failures, bad_replies >>

\* as RoundFails, the in-progress flag being cleared only after a success
RoundFailsFlagKept ==
    /\ pc \in {"question", "answer"}
    /\ llm_reply.kind = "error"
    /\ pc' = "idle"
    /\ rr' = NoRound
    /\ llm_request' = NoRequest
    /\ llm_reply' = NoReply
    /\ guard_returned' = FALSE
    /\ UNCHANGED << query, engineVars, game_initialized, current_round, game_complete,
                    game_log, votes, game_outcome, current_questioner,
                    round_in_progress, next_action, voting_conducted, cv, failures,
                    bad_replies >>

\* _generate_question raised, or _generate_answer did: run_round is left by
\* the exception; run_game_round, lines 175-182
RoundFails ==
    /\ pc \in {"question", "answer"}
    /\ llm_reply.kind = "error"
    /\ round_in_progress' = FALSE
    /\ pc' = "idle"
    /\ rr' = NoRound
    /\ llm_request' = NoRequest
    /\ llm_reply' = NoReply
    /\ guard_returned' = FALSE
    /\ UNCHANGED << query, engineVars, game_initialized, current_round, game_complete,
                    game_log, votes, game_outcome, current_questioner,
                    next_action, voting_conducted, cv, failures, bad_replies >>

\* _generate_question returned, lines 117-123 and 75-86
OnQuestion ==
    /\ pc = "question"
    /\ llm_reply.kind = "text"
    /\ LET question == strip(llm_reply.text)
           nxt == NextResponder(0, rr.questioner)
           responder == AgentAt(nxt).name
       IN  /\ rr' = [rr EXCEPT !.question = question,
                               !.agent = nxt,
                               !.requests = Append(rr.requests, Requested("answer", responder))]
           /\ llm_request' = AnswerRequest(responder, rr.questioner, question,
                                           rr.round_number, conversation_history,
                                           is_killer[responder])
    /\ pc' = "answer"
    /\ llm_reply' = NoReply
    /\ UNCHANGED << query, engineVars, game_initialized, current_round, game_complete,
                    game_log, votes, game_outcome, current_questioner,
                    round_in_progress, next_action, voting_conducted, cv,
                    guard_returned, failures, bad_replies >>

\* _generate_answer returned, lines 147-153 and 89; after the last answer
\* run_round, lines 91-100, and run_game_round, lines 165-182
OnAnswer ==
    /\ pc = "answer"
    /\ llm_reply.kind = "text"
    /\ llm_reply' = NoReply
    /\ LET answers == rr.answers @@ (AgentAt(rr.agent).name :> strip(strip(llm_reply.text)))
           nxt == NextResponder(rr.agent + 1, rr.questioner)
           round_data == RoundData(rr.round_number, rr.questioner, rr.question, answers)
       IN  IF nxt < NumAgents
           THEN /\ rr' = [rr EXCEPT !.answers = answers, !.agent = nxt,
                                    !.requests = Append(rr.requests,
                                        Requested("answer", AgentAt(nxt).name))]
                /\ llm_request' = AnswerRequest(AgentAt(nxt).name, rr.questioner,
                                                rr.question, rr.round_number,
                                                conversation_history,
                                                is_killer[AgentAt(nxt).name])
                /\ UNCHANGED << conversation_history, game_log, current_round,
                                voting_conducted, next_action, round_in_progress, pc,
                                guard_returned >>
           ELSE /\ conversation_history' = Append(conversation_history, round_data)
                /\ game_log' = Append(game_log, round_data)
                /\ current_round' = current_round + 1
                /\ voting_conducted' = FALSE
                /\ next_action' = NextActionAfterRound(current_round + 1)
                /\ round_in_progress' = FALSE
                /\ pc' = "idle"
                /\ rr' = NoRound
                /\ llm_request' = NoRequest
                /\ guard_returned' = FALSE
    /\ UNCHANGED << query, is_killer, killer, current_questioner_idx, game_initialized,
                    game_complete, votes, game_outcome, current_questioner, cv,
                    failures, bad_replies >>

(***************************************************************************)
(* GameEngine.conduct_voting: one attempt.                                 *)
(***************************************************************************)
\* as ValidAgents, the voter not being excluded
ValidAgentsWithSelf(voter) == AgentNames

\* conduct_voting, line 164: the names a voter may vote for
ValidAgents(voter) == { n \in AgentNames : n # voter }

\* as FallbackTargets, the choice being made among all agents
FallbackTargetsAnyAgent(voter) == AgentNames

\* as FallbackTargets, no name being left for random.choice to pick
FallbackTargetsNone(voter) == {}

\* lines 245-246: the names random.choice picks the fallback vote from
FallbackTargets(voter) == { n \in AgentNames : n # voter }

\* as LastAttempt, one attempt too many
LastAttemptOffByOne(attempt) == attempt >= max_attempts

\* line 241: no attempt is left after this one
LastAttempt(attempt) == attempt >= max_attempts - 1

\* a field that the parsed object does not have
Absent == "<absent>"

\* dict.get(field, ""), lines 221-222
Get(field) == IF field = Absent THEN "" ELSE field

\* lines 174-181: the guidance put in the prompt of attempt number `attempt`
\* (0-based); previous_error is the local of that name when the prompt is built
RetryGuidance(attempt, previous_error) ==
    IF attempt > 0
    THEN "IMPORTANT: Previous response could not be used. Previous error: " \o previous_error
    ELSE ""

\* as AttemptResult, the test of the vote against the valid agents left out
AttemptResultUnvalidated(reply, valid_agents) ==
    IF reply.kind = "error"
    THEN [ok |-> FALSE, vote |-> "", reasoning |-> "", error |-> reply.text]
    ELSE IF reply.kind = "garbage"
    THEN [ok |-> FALSE, vote |-> "", reasoning |-> "",
          error |-> "Expecting value: line 1 column 1 (char 0)"]
    ELSE [ok |-> TRUE, vote |-> strip(Get(reply.vote)),
          reasoning |-> strip(Get(reply.reasoning)), error |-> ""]

\* lines 197-242: what one reply leads to -- a vote, or the exception caught
\* at line 236, as str(e)
AttemptResult(reply, valid_agents) ==
    IF reply.kind = "error"
    THEN [ok |-> FALSE, vote |-> "", reasoning |-> "", error |-> reply.text]
    ELSE IF reply.kind = "garbage"
    THEN [ok |-> FALSE, vote |-> "", reasoning |-> "",
          error |-> "Expecting value: line 1 column 1 (char 0)"]
    ELSE LET vote_target == strip(Get(reply.vote))
             reasoning == strip(Get(reply.reasoning))
         IN  IF vote_target \notin valid_agents
             THEN [ok |-> FALSE, vote |-> vote_target, reasoning |-> reasoning,
                   error |-> "Invalid vote target: " \o vote_target]
             ELSE [ok |-> TRUE, vote |-> vote_target, reasoning |-> reasoning,
                   error |-> ""]

\* as FallbackReasoning, the error text alone being given as the reasoning
FallbackReasoningUnmarked(error) == error

\* line 247
FallbackReasoning(error) ==
    "[Error processing vote: " \o error \o ". Random vote generated as fallback]"

(***************************************************************************)
(* conduct_voting of app.py after the engine has returned the votes:       *)
(* tally, majority, outcome, results store, end of game.                   *)
(***************************************************************************)
\* lines 204-207: the keys of vote_counts in insertion order, the voters
\* being visited in registry order from position i on
RECURSIVE TallyOrder(_, _, _)
TallyOrder(v, i, seen) ==
    IF i >= NumAgents THEN seen
    ELSE LET target == v[AgentAt(i).name].vote
         IN  IF \E k \in 1..Len(seen) : seen[k] = target
             THEN TallyOrder(v, i + 1, seen)
             ELSE TallyOrder(v, i + 1, Append(seen, target))

\* as VoteCounts, a target's count starting at one
VoteCountsFromOne(v) ==
    [ t \in { v[n].vote : n \in DOMAIN v } |->
        Cardinality({ n \in DOMAIN v : v[n].vote = t }) + 1 ]

\* lines 204-207: vote_counts
VoteCounts(v) ==
    [ t \in { v[n].vote : n \in DOMAIN v } |->
        Cardinality({ n \in DOMAIN v : v[n].vote = t }) ]

\* as FirstWithQuorum, a quorum being more than QUORUM votes
RECURSIVE FirstAboveQuorum(_, _, _)
FirstAboveQuorum(vote_counts, order, k) ==
    IF k > Len(order) THEN None
    ELSE IF vote_counts[order[k]] > QUORUM THEN order[k]
    ELSE FirstAboveQuorum(vote_counts, order, k + 1)

\* lines 211-215: the first key, in iteration order, with a quorum
RECURSIVE FirstWithQuorum(_, _, _)
FirstWithQuorum(vote_counts, order, k) ==
    IF k > Len(order) THEN None
    ELSE IF vote_counts[order[k]] >= QUORUM THEN order[k]
    ELSE FirstWithQuorum(vote_counts, order, k + 1)

MajorityAgent(v) == FirstWithQuorum(VoteCounts(v), TallyOrder(v, 0, <<>>), 1)

\* as CorrectlyIdentified, any majority counting as an identification
CorrectlyIdentifiedAnyMajority(majority_agent, killer_name) == majority_agent # None

\* line 223
CorrectlyIdentified(majority_agent, killer_name) ==
    IF majority_agent # None THEN majority_agent = killer_name ELSE FALSE

\* as GameOutcome, the round counter itself stored as rounds_played
GameOutcomeCountsNextRound(v, round, killer_name) ==
    [majority_found |-> MajorityAgent(v) # None,
     majority_agent |-> MajorityAgent(v),
     vote_distribution |-> VoteCounts(v),
     rounds_played |-> round,
     correctly_identified |-> CorrectlyIdentified(MajorityAgent(v), killer_name)]

\* lines 218-224
GameOutcome(v, round, killer_name) ==
    [majority_found |-> MajorityAgent(v) # None,
     majority_agent |-> MajorityAgent(v),
     vote_distribution |-> VoteCounts(v),
     rounds_played |-> round - 1,
     correctly_identified |-> CorrectlyIdentified(MajorityAgent(v), killer_name)]

\* as GameEnds, both conditions being required
GameEndsBoth(majority_agent, round) == majority_agent # None /\ round > MAX_ROUNDS

\* as GameEnds, without the cap on rounds
GameEndsOnMajority(majority_agent, round) == majority_agent # None

\* line 238
GameEnds(majority_agent, round) == majority_agent # None \/ round > MAX_ROUNDS

\* utils.save_game_results, called at line 235: it returns, or raises
SaveGameResults(ok) ==
    \/ ok /\ UNCHANGED failures
    \/ ~ok /\ failures < MaxFailures /\ failures' = failures + 1

\* lines 200-250, v being what game_engine.conduct_voting returned
FinishVoting(v) ==
    /\ votes' = v
    /\ voting_conducted' = TRUE
    /\ game_outcome' = << GameOutcome(v, current_round, killer) >>
    /\ \E ok \in BOOLEAN :
         /\ SaveGameResults(ok)
         /\ IF ok /\ GameEnds(MajorityAgent(v), current_round)
            THEN game_complete' = TRUE /\ UNCHANGED next_action
            ELSE IF ok
            THEN next_action' = "round" /\ UNCHANGED game_complete
            ELSE UNCHANGED << game_complete, next_action >>
    /\ round_in_progress' = FALSE
    /\ pc' = "idle"
    /\ cv' = NoVoting
    /\ llm_request' = NoRequest
    /\ guard_returned' = FALSE
    /\ bad_replies' = 0

(***************************************************************************)
(* conduct_voting of app.py, lines 185-198, up to the first vote request   *)
(* of GameEngine.conduct_voting.                                           *)
(***************************************************************************)
ConductVoting ==
    /\ pc = "idle"
    /\ StepOffered
    /\ next_action = "voting"
    /\ ~round_in_progress
    /\ round_in_progress' = TRUE
    /\ cv' = [NoVoting EXCEPT
                 !.conversation_history = FormatConversationHistory(conversation_history),
                 !.retry_guidance = RetryGuidance(0, "")]
    /\ llm_request' = VoteRequest(AgentAt(0).name, Len(conversation_history),
                                  FormatConversationHistory(conversation_history),
                                  RetryGuidance(0, ""))
    /\ pc' = "vote"
    /\ bad_replies' = 0
    /\ UNCHANGED << query, engineVars, game_initialized, current_round, game_complete,
                    game_log, votes, game_outcome, current_questioner,
                    next_action, voting_conducted, rr, llm_reply, guard_returned,
                    failures >>

\* conduct_voting of app.py called while a step is running: lines 187-188
ConductVotingWhileBusy ==
    /\ StepOffered
    /\ next_action = "voting"
    /\ round_in_progress
    /\ guard_returned' = TRUE
    /\ UNCHANGED stateVars

\* line 252, then the next voter's first prompt or the return at line 254
\* and the rest of the driver's handler
CastVote(vote_target, reasoning) ==
    LET voter == AgentAt(cv.agent).name
        cast == cv.votes @@ (voter :> [vote |-> vote_target, reasoning |-> reasoning])
    IN  IF cv.agent + 1 < NumAgents
        THEN /\ cv' = [NoVoting EXCEPT
                          !.votes = cast, !.agent = cv.agent + 1,
                          !.conversation_history =
                              FormatConversationHistory(conversation_history),
                          !.retry_guidance = RetryGuidance(0, "")]
             /\ llm_request' = VoteRequest(AgentAt(cv.agent + 1).name,
                                           Len(conversation_history),
                                           FormatConversationHistory(conversation_history),
                                           RetryGuidance(0, ""))
             /\ UNCHANGED << votes, voting_conducted, game_outcome, game_complete,
                             next_action, round_in_progress, pc, guard_returned,
                             failures, bad_replies >>
        ELSE FinishVoting(cast)

\* the reply to a vote request: lines 197-250.  The local previous_error is
\* set at line 240 and set to "" again at line 173, before the next prompt
\* is built.
OnVote ==
    /\ pc = "vote"
    /\ llm_reply # NoReply
    /\ llm_reply' = NoReply
    /\ LET voter == AgentAt(cv.agent).name
           res == AttemptResult(llm_reply, ValidAgents(voter))
       IN  IF res.ok
           THEN CastVote(res.vote, res.reasoning)
           ELSE IF ~LastAttempt(cv.attempt)
           THEN /\ cv' = [cv EXCEPT !.attempt = cv.attempt + 1,
                                    !.previous_error = "",
                                    !.recorded_error = res.error,
                                    !.retry_guidance = RetryGuidance(cv.attempt + 1, "")]
                /\ llm_request' = VoteRequest(voter, Len(conversation_history),
                                              cv.conversation_history,
                                              RetryGuidance(cv.attempt + 1, ""))
                /\ UNCHANGED << votes, voting_conducted, game_outcome, game_complete,
                                next_action, round_in_progress, pc, guard_returned,
                                failures, bad_replies >>
           ELSE \E vote_target \in FallbackTargets(voter) :
                    CastVote(vote_target, FallbackReasoning(res.error))
    /\ UNCHANGED << query, engineVars, game_initialized, current_round, game_log,
                    current_questioner, rr >>

(***************************************************************************)
(* The model's vote replies.                                               *)
(***************************************************************************)
\* a reply the voter's vote can be taken from as it is
Usable(reply, voter) ==
    reply.kind = "json" /\ reply.vote \in AgentNames /\ reply.vote # voter

LLMVotes(replies) ==
    /\ pc = "vote"
    /\ llm_reply = NoReply
    /\ LET voter == AgentAt(cv.agent).name
       IN  \E reply \in replies :
             /\ llm_reply' = reply
             /\ llm_request' = NoRequest
             /\ IF Usable(reply, voter)
                THEN UNCHANGED bad_replies
                ELSE bad_replies < MaxBadReplies /\ bad_replies' = bad_replies + 1
    /\ UNCHANGED << query, engineVars, game_initialized, current_round, game_complete,
                    game_log, votes, game_outcome, current_questioner,
                    round_in_progress, next_action, voting_conducted, pc, rr, cv,
                    guard_returned, failures >>

\* replies of a model that either accuses the first agent or, in turn,
\* the agent after the voter
Successor(voter) == AgentAt((IndexOf(voter) + 1) % NumAgents).name

PlainReplies ==
    { JsonReply(t, "because") :
        t \in { Successor(AgentAt(cv.agent).name), AgentAt(0).name } \ { AgentAt(cv.agent).name } }

\* replies of an unreliable model: errors, text that is no JSON, votes for
\* one of the first NumSuspects agents (the voter included) or for nobody known
Suspects == { AgentAt(i).name : i \in 0..(NumSuspects - 1) }

UnreliableReplies ==
    { ErrorReply, GarbageReply } \cup
    { JsonReply(t, "because") : t \in Suspects \cup { "Professor Plum" } }

\* replies of a model that is careless about the form of its votes: blanks
\* around the name, no "reasoning" field, no "vote" field, no JSON
CarelessReplies ==
    LET voter == AgentAt(cv.agent).name
    IN  { JsonReply(Successor(voter), "because"),
          JsonReply(" " \o Successor(voter) \o "  ", "because"),
          JsonReply(Successor(voter), Absent),
          JsonReply(" " \o voter, "because"),
          JsonReply(Absent, "because"),
          GarbageReply }

(***************************************************************************)
(* Specifications.                                                         *)
(***************************************************************************)
\* the whole game, the model's votes being usable
Next ==
    \/ InitializeNewGame
    \/ RunGameRound
    \/ ConductVoting
    \/ LLMReturnsText
    \/ LLMRaises
    \/ LLMVotes(PlainReplies)
    \/ RoundFails
    \/ OnQuestion
    \/ OnAnswer
    \/ OnVote

Spec == Init /\ [][Next]_vars

\* the first rounds and voting phase, the model's votes being unreliable
NextVoting ==
    \/ InitializeNewGame
    \/ (current_round <= VotingSpecRounds /\ RunGameRound)
    \/ ConductVoting
    \/ LLMReturnsText
    \/ LLMVotes(UnreliableReplies)
    \/ OnQuestion
    \/ OnAnswer
    \/ OnVote

\* a session in which the service answers every request and the results
\* store accepts every record
InitVoting ==
    /\ is_killer = [n \in AgentNames |-> FALSE]
    /\ killer = None
    /\ conversation_history = <<>>
    /\ current_questioner_idx = 0
    /\ game_initialized = FALSE
    /\ current_round = 0
    /\ game_complete = FALSE
    /\ game_log = <<>>
    /\ votes = <<>>
    /\ game_outcome = <<>>
    /\ current_questioner = None
    /\ round_in_progress = FALSE
    /\ next_action = "round"
    /\ voting_conducted = FALSE
    /\ pc = "idle"
    /\ rr = NoRound
    /\ cv = NoVoting
    /\ llm_request = NoRequest
    /\ llm_reply = NoReply
    /\ guard_returned = FALSE
    /\ query = NoQuery
    /\ failures = MaxFailures
    /\ bad_replies = 0

SpecVoting == InitVoting /\ [][NextVoting]_vars

\* the first rounds and voting phase, the model being careless about the
\* form of its votes
NextParsing ==
    \/ InitializeNewGame
    \/ (current_round <= VotingSpecRounds /\ RunGameRound)
    \/ ConductVoting
    \/ LLMReturnsText
    \/ LLMVotes(CarelessReplies)
    \/ OnQuestion
    \/ OnAnswer
    \/ OnVote

SpecParsing == InitVoting /\ [][NextParsing]_vars

\* the first rounds and voting phase, the step button being pressed also
\* while a step is running
NextReentry ==
    \/ InitializeNewGame
    \/ (current_round <= VotingSpecRounds /\ RunGameRound)
    \/ ConductVoting
    \/ RunGameRoundWhileBusy
    \/ ConductVotingWhileBusy
    \/ LLMReturnsText
    \/ LLMRaises
    \/ LLMVotes(PlainReplies)
    \/ RoundFails
    \/ OnQuestion
    \/ OnAnswer
    \/ OnVote

SpecReentry == Init /\ [][NextReentry]_vars

\* everything but the locals of run_llm_query
gameVars ==
    << is_killer, killer, conversation_history, current_questioner_idx,
       game_initialized, current_round, game_complete, game_log, votes,
       game_outcome, current_questioner, round_in_progress, next_action,
       voting_conducted, pc, rr, cv, llm_request, llm_reply, guard_returned,
       failures, bad_replies >>

\* run_llm_query is called, lines 53-74 and 134
RunLLMQuery ==
    /\ query.status \in { "none", "returned", "raised" }
    /\ query' = [NoQuery EXCEPT !.status = "invoking", !.attempt_number = 1]
    /\ UNCHANGED gameVars

\* llm.invoke, line 111, returns or raises
LLMInvoked ==
    /\ query.status = "invoking"
    /\ query.pending = NoOutcome
    /\ \E outcome \in InvokeOutcomes :
         query' = [query EXCEPT !.pending = outcome,
                                !.invoked = Append(query.invoked, outcome)]
    /\ UNCHANGED gameVars

\* lines 112-130 of execute_with_retry, then tenacity (lines 84-91): the
\* attempt is made again if what was raised is retryable and attempts are
\* left; run_llm_query returns or raises otherwise, lines 133-138
OnInvoke ==
    /\ query.status = "invoking"
    /\ query.pending # NoOutcome
    /\ IF query.pending.ok
       THEN query' = [query EXCEPT !.status = "returned",
                                   !.result = query.pending,
                                   !.pending = NoOutcome]
       ELSE LET e == RaisedByAttempt(query.pending)
            IN  IF ~IsRetryable(e)
                THEN query' = [query EXCEPT !.status = "raised", !.result = e,
                                            !.pending = NoOutcome]
                ELSE IF query.attempt_number >= max_retries
                THEN query' = [query EXCEPT !.status = "raised",
                                            !.result = Raised("RetryError", e.message),
                                            !.pending = NoOutcome]
                ELSE query' = [query EXCEPT !.attempt_number = query.attempt_number + 1,
                                            !.pending = NoOutcome]
    /\ UNCHANGED gameVars

NextQuery ==
    \/ RunLLMQuery
    \/ LLMInvoked
    \/ OnInvoke

SpecQuery == Init /\ [][NextQuery]_vars

\* GameEngine.run_round on a new engine, the caller's round counter being
\* any number: what the engine does with a round_number that is not the
\* next one of its ledger
NextEngine ==
    \/ RunGameRound
    \/ LLMReturnsText
    \/ OnQuestion
    \/ OnAnswer

InitEngine ==
    /\ killer \in AgentNames
    /\ is_killer = [n \in AgentNames |-> n = killer]
    /\ conversation_history = <<>>
    /\ current_questioner_idx = 0
    /\ game_initialized = TRUE
    /\ current_round \in 1..MaxRoundNumber
    /\ game_complete = FALSE
    /\ game_log = <<>>
    /\ votes = <<>>
    /\ game_outcome = <<>>
    /\ current_questioner = None
    /\ round_in_progress = FALSE
    /\ next_action = "round"
    /\ voting_conducted = FALSE
    /\ pc = "idle"
    /\ rr = NoRound
    /\ cv = NoVoting
    /\ llm_request = NoRequest
    /\ llm_reply = NoReply
    /\ guard_returned = FALSE
    /\ query = NoQuery
    /\ failures = MaxFailures
    /\ bad_replies = 0

SpecEngine == InitEngine /\ [][NextEngine]_vars

\* the whole game with one voter from whom no vote can ever be taken: each
\* of its replies is text that is no JSON
HopelessVoter == AgentAt(3).name

LLMNeverVotes ==
    /\ pc = "vote"
    /\ llm_reply = NoReply
    /\ AgentAt(cv.agent).name = HopelessVoter
    /\ llm_reply' = GarbageReply
    /\ llm_request' = NoRequest
    /\ UNCHANGED << query, engineVars, game_initialized, current_round, game_complete,
                    game_log, votes, game_outcome, current_questioner,
                    round_in_progress, next_action, voting_conducted, pc, rr, cv,
                    guard_returned, failures, bad_replies >>

\* replies of a model that accuses the second agent when the first or the
\* last agent votes, and the first agent otherwise: two votes each, so that
\* the hopeless voter's vote decides whether there is a majority
DividedReplies ==
    { JsonReply(IF cv.agent \in { 0, NumAgents - 1 } THEN AgentAt(1).name ELSE AgentAt(0).name,
                "because") }

NextLive ==
    \/ InitializeNewGame
    \/ RunGameRound
    \/ ConductVoting
    \/ LLMReturnsText
    \/ LLMRaises
    \/ (AgentAt(cv.agent).name # HopelessVoter /\ LLMVotes(DividedReplies))
    \/ LLMNeverVotes
    \/ RoundFails
    \/ OnQuestion
    \/ OnAnswer
    \/ OnVote

\* the driver keeps taking the step that is offered
DriverStep == RunGameRound \/ ConductVoting

\* the service replies to the request that is waiting; it raises at most
\* MaxFailures times, so its replies to a round's requests end up succeeding
ServiceStep ==
    \/ LLMReturnsText
    \/ (AgentAt(cv.agent).name # HopelessVoter /\ LLMVotes(DividedReplies))
    \/ LLMNeverVotes

\* run_round, having its reply, runs on to its next request or to its end
HandlerStep == RoundFails \/ OnQuestion \/ OnAnswer

\* ENABLED OnVote written out: conduct_voting has a reply and can go on from
\* it, to the vote, to the next attempt or to the fallback vote
OnVoteEnabled ==
    /\ pc = "vote"
    /\ llm_reply # NoReply
    /\ LET voter == AgentAt(cv.agent).name
       IN  \/ AttemptResult(llm_reply, ValidAgents(voter)).ok
           \/ ~LastAttempt(cv.attempt)
           \/ FallbackTargets(voter) # {}

\* the last conjunct is WF_vars(OnVote): every step of OnVote consumes the
\* reply, so OnVote is taken infinitely often or is disabled infinitely often
\* exactly when it is disabled infinitely often
SpecLive ==
    /\ Init
    /\ [][NextLive]_vars
    /\ WF_vars(DriverStep)
    /\ WF_vars(ServiceStep)
    /\ WF_vars(HandlerStep)
    /\ []<>(~OnVoteEnabled)

(***************************************************************************)
(* Notions the properties below are stated with.                           *)
(***************************************************************************)
\* the voter whose reply conduct_voting waits for
Voter == AgentAt(cv.agent).name

\* a reply to a vote request is about to be consumed
VotePending == pc = "vote" /\ llm_reply # NoReply

\* the reasoning synthesised at line 247
IsFallbackReasoning(reasoning) ==
    Len(reasoning) >= 24 /\ SubSeq(reasoning, 1, 24) = "[Error processing vote: "

\* votes a target received in a mapping of votes
Received(v, target) == Cardinality({ n \in DOMAIN v : v[n].vote = target })

(***************************************************************************)
(* C1.  The questioner recorded for round n is agents[(n-1) mod 5],        *)
(* whatever calls came before, failed and retried rounds included.         *)
(* The engine takes the questioner from its own index, which a failed      *)
(* call has already advanced: the statement fails after a failed round.    *)
(***************************************************************************)
C1_QuestionerIsFunctionOfRound ==
    \A k \in 1..Len(conversation_history) :
        conversation_history[k].questioner =
            AgentAt((conversation_history[k].round - 1) % 5).name

(***************************************************************************)
(* C2.  Whenever the voting phase leaves the engine, the driver holds one  *)
(* vote per agent, each for a known agent other than the voter, whatever   *)
(* the replies were; no reply makes the phase end without them.            *)
(***************************************************************************)
C2_OneValidVotePerAgent ==
    [][ (pc = "vote" /\ pc' = "idle") =>
            /\ voting_conducted'
            /\ DOMAIN votes' = AgentNames
            /\ \A n \in AgentNames :
                   votes'[n].vote \in AgentNames /\ votes'[n].vote # n ]_vars

\* a phase has ended in which some voter's third reply was no JSON
C2_Witness ==
    /\ voting_conducted
    /\ pc = "idle"
    /\ \E n \in DOMAIN votes :
           votes[n].reasoning =
               "[Error processing vote: Expecting value: line 1 column 1 (char 0). Random vote generated as fallback]"

(***************************************************************************)
(* C3.  A reply that names the voter itself is never accepted: on the      *)
(* first two attempts the same voter is asked again and no vote is cast;   *)
(* on the third the fallback vote is cast, for another agent.              *)
(***************************************************************************)
C3_SelfVoteRejected ==
    [][ (VotePending /\ llm_reply.kind = "json" /\ strip(llm_reply.vote) = Voter) =>
            \/ /\ cv.attempt < 2
               /\ pc' = "vote"
               /\ cv'.agent = cv.agent
               /\ cv'.attempt = cv.attempt + 1
               /\ cv'.votes = cv.votes
            \/ /\ cv.attempt = 2
               /\ LET cast == IF pc' = "vote" THEN cv'.votes ELSE votes'
                  IN  /\ Voter \in DOMAIN cast
                      /\ cast[Voter].vote \in AgentNames \ {Voter}
                      /\ IsFallbackReasoning(cast[Voter].reasoning) ]_vars

\* some voter named itself on its third attempt and got a fallback vote
C3_Witness ==
    \E n \in DOMAIN cv.votes :
        /\ cv.votes[n].reasoning = FallbackReasoning("Invalid vote target: " \o n)
        /\ cv.votes[n].vote # n

(***************************************************************************)
(* C4.  Per voter, between one and three attempts: a vote is cast only by  *)
(* a step that consumes that voter's reply; an attempt number never        *)
(* exceeds the third; a further attempt follows only an unusable reply; a  *)
(* usable reply is the voter's last; the fallback is cast only by the      *)
(* third attempt's failure.                                                *)
(***************************************************************************)
C4_AttemptsBounded ==
    [][ /\ cv'.attempt \in 0..2
        /\ pc = "vote" =>
             LET cast == IF pc' = "vote" THEN cv'.votes ELSE votes'
             IN  /\ (VotePending /\ Usable(llm_reply, Voter)) =>
                       /\ Voter \in DOMAIN cast
                       /\ cast[Voter] = [vote |-> llm_reply.vote,
                                         reasoning |-> llm_reply.reasoning]
                       /\ pc' = "idle" \/ (cv'.agent = cv.agent + 1 /\ cv'.attempt = 0)
                 /\ cv'.attempt > cv.attempt =>
                       /\ VotePending /\ ~Usable(llm_reply, Voter)
                       /\ cv'.attempt = cv.attempt + 1
                       /\ cv'.agent = cv.agent
                       /\ cast = cv.votes
                 /\ DOMAIN cast # DOMAIN cv.votes =>
                       /\ VotePending
                       /\ DOMAIN cast = DOMAIN cv.votes \cup {Voter}
                       /\ IsFallbackReasoning(cast[Voter].reasoning) =>
                              cv.attempt = 2 /\ ~Usable(llm_reply, Voter) ]_vars

\* the first voter's second attempt was usable, and the second voter is
\* now asked for the first time
C4_Witness ==
    /\ pc = "vote"
    /\ cv.agent = 1
    /\ cv.attempt = 0
    /\ bad_replies = 1
    /\ ~IsFallbackReasoning(cv.votes[AgentAt(0).name].reasoning)

(***************************************************************************)
(* C5.  In every outcome the majority agent is the target that received    *)
(* at least 3 of the 5 votes, and none if no target did.                   *)
(***************************************************************************)
C5_MajorityIsQuorumTarget ==
    game_outcome # <<>> =>
        LET m == game_outcome[1].majority_agent
        IN  /\ Cardinality(DOMAIN votes) = 5
            /\ \A t \in AgentNames : Received(votes, t) >= 3 => m = t
            /\ (\A t \in AgentNames : Received(votes, t) < 3) => m = None
            /\ game_outcome[1].majority_found = (m # None)

\* the tally is {A: 3, B: 1, C: 1}
C5_Witness ==
    /\ game_outcome # <<>>
    /\ \E a, b, c \in AgentNames :
         /\ Cardinality({a, b, c}) = 3
         /\ Received(votes, a) = 3 /\ Received(votes, b) = 1 /\ Received(votes, c) = 1
         /\ game_outcome[1].majority_agent = a

(***************************************************************************)
(* C6.  correctly_identified is true exactly when there is a majority      *)
(* agent and it is the killer; with no majority agent it is FALSE.         *)
(***************************************************************************)
C6_CorrectlyIdentified ==
    game_outcome # <<>> =>
        LET o == game_outcome[1]
        IN  /\ o.correctly_identified =
                   (o.majority_agent # None /\ o.majority_agent = killer)
            /\ o.majority_agent = None => o.correctly_identified = FALSE

\* a majority for an agent that is not the killer
C6_Witness ==
    /\ game_outcome # <<>>
    /\ game_outcome[1].majority_agent \in AgentNames \ {killer}
    /\ ~game_outcome[1].correctly_identified

(***************************************************************************)
(* C7.  The completion flag is set only by a voting phase that ran to its  *)
(* end, and such a phase sets it exactly when it found a majority agent or *)
(* the round counter is above 20; otherwise the next action is a round.    *)
(***************************************************************************)
C7_CompleteExactlyOnMajorityOrCap ==
    [][ /\ (game_complete' /\ ~game_complete) =>
               /\ pc = "vote" /\ pc' = "idle" /\ failures' = failures
               /\ game_outcome'[1].majority_agent # None \/ current_round > 20
        /\ (pc = "vote" /\ pc' = "idle" /\ failures' = failures) =>
               IF game_outcome'[1].majority_agent # None \/ current_round > 20
               THEN game_complete'
               ELSE ~game_complete' /\ next_action' = "round" ]_vars

\* a phase found no majority before the cap and the game goes on
C7_Witness ==
    /\ pc = "idle"
    /\ voting_conducted
    /\ game_outcome[1].majority_agent = None
    /\ ~game_complete
    /\ next_action = "round"
    /\ current_round = 4

(***************************************************************************)
(* C8.  No round numbered above 21 is started, and the voting phase that   *)
(* follows round 21 completes the game, majority or not.                   *)
(***************************************************************************)
C8_CompleteAfterRound21 ==
    [][ /\ (pc = "idle" /\ pc' = "question") => current_round <= 21
        /\ (pc = "vote" /\ pc' = "idle" /\ failures' = failures
              /\ Len(conversation_history) = 21) => game_complete' ]_vars

\* 21 rounds, no majority in the last phase, game complete
C8_Witness ==
    /\ game_complete
    /\ Len(conversation_history) = 21
    /\ game_outcome[1].majority_agent = None
    /\ game_outcome[1].rounds_played = 21

(***************************************************************************)
(* C9.  In every record of the ledger and of the game log the answers are  *)
(* keyed by the agents other than the questioner: 4 keys, each once.       *)
(***************************************************************************)
C9_AnswersFromAllButQuestioner ==
    /\ \A k \in 1..Len(conversation_history) :
         /\ DOMAIN conversation_history[k].answers =
                AgentNames \ {conversation_history[k].questioner}
         /\ Cardinality(DOMAIN conversation_history[k].answers) = 4
    /\ \A k \in 1..Len(game_log) :
         DOMAIN game_log[k].answers = AgentNames \ {game_log[k].questioner}

\* a round recorded after a failed one, its questioner not the first agent
C9_Witness ==
    /\ Len(conversation_history) >= 1
    /\ conversation_history[1].questioner # AgentAt(0).name

(***************************************************************************)
(* C10.  A round whose question or answer request fails leaves the ledger, *)
(* the game log and the round counter as they were; a record is appended   *)
(* only by the step that receives the fourth answer, to both, with the     *)
(* counter advanced by one.                                                *)
(***************************************************************************)
C10_NoPartialRound ==
    [][ /\ (pc \in {"question", "answer"} /\ llm_reply.kind = "error") =>
               /\ conversation_history' = conversation_history
               /\ game_log' = game_log
               /\ current_round' = current_round
               /\ pc' = "idle"
        /\ (Len(conversation_history') > Len(conversation_history)
              \/ Len(game_log') > Len(game_log)
              \/ (game_initialized /\ current_round' # current_round
                    /\ ~game_complete)) =>
               /\ pc = "answer" /\ llm_reply.kind = "text"
               /\ Cardinality(DOMAIN rr.answers) = 3
               /\ Len(conversation_history') = Len(conversation_history) + 1
               /\ game_log' = Append(game_log, conversation_history'[Len(conversation_history')])
               /\ Cardinality(DOMAIN conversation_history'[Len(conversation_history')].answers) = 4
               /\ current_round' = current_round + 1 ]_vars

\* the first round failed (the engine's index has moved on) and nothing was
\* recorded or counted
C10_Witness ==
    /\ pc = "idle"
    /\ game_initialized
    /\ failures = 1
    /\ current_questioner_idx = 1
    /\ conversation_history = <<>>
    /\ game_log = <<>>
    /\ current_round = 1

(***************************************************************************)
(* C11.  A round that fails with a generation failure leaves the ledger,   *)
(* the round counter, the next action, the completion flag and the         *)
(* position of the questioner rotation as they were before the call.       *)
(* The position the call started from is that of rr.questioner.  The       *)
(* engine advances its index before the first request and never takes it   *)
(* back: the statement fails at the first failed round.                    *)
(***************************************************************************)
C11_FailedRoundRestoresState ==
    [][ (pc \in {"question", "answer"} /\ llm_reply.kind = "error") =>
            /\ conversation_history' = conversation_history
            /\ current_round' = current_round
            /\ next_action' = next_action
            /\ game_complete' = game_complete
            /\ current_questioner_idx' = IndexOf(rr.questioner) ]_vars

(***************************************************************************)
(* C12.  A round record whose round_number is not the length of the ledger *)
(* plus one is not appended: the call fails and the ledger stays as it     *)
(* was.  run_round appends whatever number it was given; the statement     *)
(* fails as soon as the engine is called with another number than the      *)
(* next one.                                                               *)
(***************************************************************************)
C12_OutOfSequenceAppendFails ==
    [][ (pc = "answer" /\ rr.round_number # Len(conversation_history) + 1) =>
            conversation_history' = conversation_history ]_vars

(***************************************************************************)
(* C13.  In every reachable state the k-th record of the ledger has round  *)
(* number k, whatever rounds failed and were retried and whatever voting   *)
(* phases ran in between.                                                  *)
(***************************************************************************)
C13_RoundNumbersContiguous ==
    \A k \in 1..Len(conversation_history) : conversation_history[k].round = k

\* a round has failed and been retried, a voting phase has run without a
\* majority, and rounds have been recorded after it
C13_Witness ==
    /\ failures > 0
    /\ Len(conversation_history) >= 5
    /\ game_outcome # <<>>
    /\ current_questioner_idx # Len(conversation_history) % NumAgents

(***************************************************************************)
(* C14.  The rendered history is a function of the ledger's contents and   *)
(* rendering leaves the ledger alone: whenever a request is issued, the    *)
(* ledger is what it was, and the text in the request has one block per    *)
(* record, in the order of the ledger, block k made of the round number    *)
(* of record k, its questioner and question, and one line per answer in    *)
(* the order of the registry, closed by an empty line.  The text being     *)
(* fixed by the records alone, equal ledgers give equal texts and a second *)
(* rendering without an append gives the same text.                        *)
(***************************************************************************)
\* the lines of a block that report the answers of a record
AnswersReported(block) == SubSeq(block, 3, Len(block) - 1)

\* text is the rendering of history, as the statement describes it
RendersInOrder(text, history) ==
    /\ Len(text) = Len(history)
    /\ \A k \in 1..Len(history) :
         LET record == history[k]
             block == text[k]
             responders == { i \in 1..NumAgents : agents[i].name \in DOMAIN record.answers }
         IN  /\ Len(block) = Cardinality(responders) + 3
             /\ block[1] = "[Round " \o ToString(record.round) \o "]"
             /\ block[2] = record.questioner \o " asked: \"" \o record.question \o "\""
             /\ block[Len(block)] = ""
             /\ \A i \in responders :
                    LET before == Cardinality({ j \in responders : j < i })
                    IN  AnswersReported(block)[before + 1] =
                            agents[i].name \o " answered: \""
                                \o record.answers[agents[i].name] \o "\""

C14_RenderingIsPure ==
    [][ llm_request'.template # "none" =>
            /\ conversation_history' = conversation_history
            /\ RendersInOrder(llm_request'.conversation_history, conversation_history') ]_vars

\* an answer is being requested in a later round of a game in which a round
\* had failed: the text in the request has a block for each earlier round
C14_Witness ==
    /\ llm_request.template = "answer"
    /\ failures > 0
    /\ Len(llm_request.conversation_history) >= 4
    /\ Len(llm_request.conversation_history[4]) = 7

(***************************************************************************)
(* C15.  Once a game is initialised exactly one agent is flagged as the    *)
(* killer and the engine's killer is that agent; no step of a game in      *)
(* progress -- round, voting phase, failure -- changes the flags or the    *)
(* killer; the five names of the registry are pairwise distinct.           *)
(***************************************************************************)
C15_OneKillerFixedForTheGame ==
    [][ /\ game_initialized' =>
              /\ Cardinality({ n \in AgentNames : is_killer'[n] }) = 1
              /\ killer' \in AgentNames
              /\ is_killer'[killer']
        /\ (game_initialized /\ ~game_complete) =>
              (killer' = killer /\ is_killer' = is_killer)
        /\ NumAgents = 5
        /\ \A i, j \in 1..NumAgents : i # j => agents[i].name # agents[j].name ]_vars

\* rounds and two voting phases have run, one round having failed
C15_Witness ==
    /\ game_initialized
    /\ is_killer[killer]
    /\ failures > 0
    /\ voting_conducted
    /\ Len(conversation_history) >= 6

(***************************************************************************)
(* C16.  At most one round or voting phase is in flight: a handler called  *)
(* while the in-progress flag is set returns at its guard, leaving the     *)
(* engine and the game state untouched; a step starts only with the flag   *)
(* clear and holds it while it runs; the flag is clear again when the      *)
(* step has ended, by success or by failure.                               *)
(***************************************************************************)
C16_OneStepInFlight ==
    [][ /\ (guard_returned' /\ ~guard_returned) =>
              (round_in_progress /\ UNCHANGED stateVars)
        /\ (pc = "idle" /\ pc' # "idle") => (~round_in_progress /\ round_in_progress')
        /\ (pc # "idle" /\ pc' # "idle") => (round_in_progress /\ round_in_progress')
        /\ (pc # "idle" /\ pc' = "idle") => ~round_in_progress' ]_vars

\* the button was pressed during a voting phase, after a round had failed
\* and the round had been run again
C16_Witness ==
    /\ guard_returned
    /\ pc = "vote"
    /\ cv.agent >= 2
    /\ failures > 0

(***************************************************************************)
(* C17.  A voting phase completes in full or fails in full: when the       *)
(* driver's voting step ends with an error, the results store refusing     *)
(* the record included, the stored votes, the outcome with its tally, the  *)
(* voting-conducted flag, the completion flag and the next action are      *)
(* what they were before the step.  The driver stores votes, flag and      *)
(* outcome before it hands the record to the store: the statement fails    *)
(* when the store raises.                                                  *)
(***************************************************************************)
C17_VotingAllOrNothing ==
    [][ (pc = "vote" /\ pc' = "idle" /\ failures' # failures) =>
            /\ votes' = votes
            /\ game_outcome' = game_outcome
            /\ voting_conducted' = voting_conducted
            /\ game_complete' = game_complete
            /\ next_action' = next_action ]_vars

(***************************************************************************)
(* C18.  run_round makes no retry of its own.  The requests of one call    *)
(* are, in this order, one question request on behalf of the questioner    *)
(* and one answer request for each other agent in the order of the         *)
(* registry; at any moment the requests made so far are the first ones of  *)
(* that list, one more than the replies received; a round is recorded      *)
(* when exactly that list was made; and a request that fails ends the      *)
(* call at once: the driver is back in control and no request follows.     *)
(***************************************************************************)
\* the requests of a round asked by questioner, as the statement lists them
ExpectedRequests(questioner) ==
    LET others == SelectSeq([i \in 1..NumAgents |-> agents[i].name],
                            LAMBDA n : n # questioner)
    IN  << [template |-> "question", agent_name |-> questioner] >>
        \o [i \in 1..Len(others) |-> [template |-> "answer", agent_name |-> others[i]]]

C18_NoRetryInRound ==
    [][ /\ pc' \in {"question", "answer"} =>
              /\ Len(rr'.requests) <= NumAgents
              /\ rr'.requests = SubSeq(ExpectedRequests(rr'.questioner), 1, Len(rr'.requests))
              /\ Len(rr'.requests) =
                     IF pc' = "question" THEN 1
                     ELSE Cardinality(DOMAIN rr'.answers) + 2
        /\ (pc = "answer" /\ pc' = "idle" /\ llm_reply.kind = "text") =>
              rr.requests = ExpectedRequests(rr.questioner)
        /\ (pc \in {"question", "answer"} /\ llm_reply.kind = "error") =>
              (pc' = "idle" /\ llm_request' = NoRequest /\ ~round_in_progress') ]_vars

\* the request for the second answer of a round has failed
C18_Witness ==
    /\ pc = "answer"
    /\ llm_reply.kind = "error"
    /\ Len(rr.requests) = 3
    /\ Cardinality(DOMAIN rr.answers) = 1

(***************************************************************************)
(* C19.  The guidance in the prompt of a voter's first attempt is empty,   *)
(* and the guidance in the prompt of every later attempt contains the      *)
(* error recorded at the voter's attempt just before.  The local that      *)
(* holds the error is emptied at the top of every attempt, before the      *)
(* guidance is built: the statement fails at the first retry.              *)
(***************************************************************************)
C19_RetryGuidanceCarriesError ==
    llm_request.template = "vote" =>
        IF cv.attempt = 0
        THEN llm_request.retry_guidance = ""
        ELSE /\ cv.recorded_error # ""
             /\ Contains(llm_request.retry_guidance, cv.recorded_error)

(***************************************************************************)
(* C20.  What makes a vote attempt succeed.                                *)
(***************************************************************************)
\* the votes cast once the step consuming a vote reply is done
CastNow == IF pc' = "idle" THEN votes' ELSE cv'.votes

\* the step takes the voter's vote from the reply it consumes
AcceptedNow ==
    /\ Voter \in DOMAIN CastNow
    /\ ~IsFallbackReasoning(CastNow[Voter].reasoning)

\* the step counts the reply as a failed attempt: another attempt follows,
\* or the fallback vote is cast
FailedNow ==
    \/ pc' = "vote" /\ cv'.agent = cv.agent /\ cv'.attempt = cv.attempt + 1
    \/ Voter \in DOMAIN CastNow /\ IsFallbackReasoning(CastNow[Voter].reasoning)

ReplyGivesVote ==
    /\ llm_reply.kind = "json"
    /\ llm_reply.vote # Absent
    /\ strip(llm_reply.vote) \in AgentNames \ { Voter }

C21_FallbackMarkerIffAllFailed ==
    [][ (VotePending /\ llm_reply' = NoReply /\ Voter \in DOMAIN CastNow) =>
            /\ IsFallbackReasoning(CastNow[Voter].reasoning) <=>
                   (cv.attempt = 2 /\ ~ReplyGivesVote)
            /\ (ReplyGivesVote \/ cv.attempt = 2)
            /\ ReplyGivesVote =>
                   CastNow[Voter] =
                       [vote |-> strip(llm_reply.vote),
                        reasoning |-> IF llm_reply.reasoning = Absent THEN ""
                                      ELSE strip(llm_reply.reasoning)]
            /\ \A n \in DOMAIN cv.votes : CastNow[n] = cv.votes[n]
            /\ DOMAIN CastNow = DOMAIN cv.votes \cup { Voter } ]_vars

\* a voter's third reply gives a valid target and no reasoning, the two
\* replies before it having failed
C21_Witness ==
    /\ VotePending
    /\ cv.attempt = 2
    /\ cv.agent >= 1
    /\ ReplyGivesVote
    /\ llm_reply.reasoning = Absent

(***************************************************************************)
(* C22.  A voting phase starts only when the rounds played are 3, 6, 9,    *)
(* ...; and a round that would follow 3m rounds (m > 0) starts only after  *)
(* a voting phase held over those 3m rounds has run to its end and found   *)
(* no majority.                                                            *)
(***************************************************************************)
\* rounds recorded so far
RoundsPlayed == Len(conversation_history)

C22_VotingEveryThreeRounds ==
    [][ /\ (pc = "idle" /\ pc' = "vote") =>
              (RoundsPlayed > 0 /\ RoundsPlayed % 3 = 0)
        /\ (pc = "idle" /\ pc' = "question" /\ RoundsPlayed > 0 /\ RoundsPlayed % 3 = 0) =>
              /\ voting_conducted
              /\ next_action = "round"
              /\ game_outcome # <<>>
              /\ game_outcome[1].rounds_played = RoundsPlayed
              /\ ~game_outcome[1].majority_found
              /\ ~game_complete ]_vars

\* round 7 is being asked, the voting phases after rounds 3 and 6 having
\* found no majority and one step having failed on the way
C22_Witness ==
    /\ pc = "question"
    /\ RoundsPlayed = 6
    /\ failures > 0
    /\ game_outcome # <<>>

(***************************************************************************)
(* C23.  One call of run_llm_query invokes the model at most 3 times; an   *)
(* invocation is followed by another only if it ended in a connection      *)
(* error, a timeout, or an error that speaks of a rate limit or of an      *)
(* exceeded quota; any other error ends the call with that error after     *)
(* the invocation that raised it; and the first content returned by the    *)
(* model is what the call returns, nothing being invoked after it.         *)
(***************************************************************************)
\* an error after which the statement allows another invocation
TransientError(outcome) ==
    /\ ~outcome.ok
    /\ outcome.type \in { "ConnectionError", "TimeoutError", "RateLimitError",
                          "ResourceExhausted" }

C23_QueryRetriesBounded ==
    [][ LET q == query'
            n == Len(q.invoked)
        IN  /\ n <= 3
            /\ \A k \in 1..(n - 1) : TransientError(q.invoked[k])
            /\ q.status = "returned" =>
                   (n >= 1 /\ q.invoked[n].ok /\ q.result = q.invoked[n])
            /\ q.status = "raised" =>
                   /\ n >= 1
                   /\ ~q.invoked[n].ok
                   /\ TransientError(q.invoked[n]) => n = 3
                   /\ ~TransientError(q.invoked[n]) => q.result = q.invoked[n]
            /\ (q.status = "invoking" /\ q.pending = NoOutcome /\ n >= 1) =>
                   TransientError(q.invoked[n])
            /\ query.status \in { "returned", "raised" } =>
                   q.invoked = <<>> ]_vars

\* a call has returned the content of its third invocation, the first
\* having met a rate limit and the second a timeout
C23_Witness ==
    /\ query.status = "returned"
    /\ Len(query.invoked) = 3
    /\ query.invoked[1].type = "RateLimitError"
    /\ query.invoked[2].type = "TimeoutError"

(***************************************************************************)
(* C24.  In every stored outcome the counts of the tally add up to 5,      *)
(* every key of the tally is the name of an agent, at most one key has a   *)
(* count of 3 or more, and the majority agent is that key, or None when    *)
(* there is none: whatever the order in which the tally is gone through,   *)
(* the same majority agent is found.                                       *)
(***************************************************************************)
\* the sum of the counts of a tally
RECURSIVE TallySum(_, _)
TallySum(tally, keys) ==
    IF keys = {} THEN 0
    ELSE LET t == CHOOSE t \in keys : TRUE
         IN  tally[t] + TallySum(tally, keys \ { t })

C24_TallyWellFormed ==
    game_outcome # <<>> =>
        LET tally == game_outcome[1].vote_distribution
            winners == { t \in DOMAIN tally : tally[t] >= 3 }
        IN  /\ TallySum(tally, DOMAIN tally) = 5
            /\ DOMAIN tally \subseteq AgentNames
            /\ Cardinality(winners) <= 1
            /\ winners = {} => game_outcome[1].majority_agent = None
            /\ winners # {} => game_outcome[1].majority_agent \in winners

\* an outcome is stored in which four agents voted for the same agent
C24_Witness ==
    /\ game_outcome # <<>>
    /\ \E t \in DOMAIN game_outcome[1].vote_distribution :
           game_outcome[1].vote_distribution[t] = 4
    /\ Cardinality(DOMAIN game_outcome[1].vote_distribution) = 2

(***************************************************************************)
(* C25.  Whenever the completion flag is set, an outcome is stored and it  *)
(* reports a majority or 21 rounds played; and from a complete game no     *)
(* step of a round or of a voting phase is taken and nothing of the game's *)
(* state changes, except by the initialisation of a new game.              *)
(***************************************************************************)
C25_CompleteIsFinal ==
    /\ [](game_complete =>
            /\ game_outcome # <<>>
            /\ game_outcome[1].majority_found \/ game_outcome[1].rounds_played = 21
            /\ pc = "idle"
            /\ ~round_in_progress)
    /\ [][ game_complete =>
            /\ game_initialized' /\ ~game_complete'
            /\ current_round' = 1
            /\ conversation_history' = <<>>
            /\ game_log' = <<>>
            /\ votes' = <<>>
            /\ game_outcome' = <<>>
            /\ next_action' = "round"
            /\ pc' = "idle" ]_vars

\* a game completed by a majority, for the wrong agent, after 12 rounds
C25_Witness ==
    /\ game_complete
    /\ game_outcome[1].majority_found
    /\ ~game_outcome[1].correctly_identified
    /\ game_outcome[1].rounds_played = 12

(***************************************************************************)
(* C26.  In an initialised game, whenever no step is in progress the       *)
(* engine's ledger and the driver's game log are the same sequence of      *)
(* round records, of length the round counter minus 1.  A voting phase     *)
(* changes none of the three, every vote prompt carries that length as     *)
(* rounds_played, and the outcome the phase stores carries the same        *)
(* number.  (Before the first game there is no engine to compare with.)    *)
(***************************************************************************)
C26_LedgerMatchesGameLog ==
    /\ []((game_initialized /\ pc = "idle") =>
            /\ ~round_in_progress
            /\ conversation_history = game_log
            /\ Len(game_log) = current_round - 1)
    /\ []((pc = "vote" /\ llm_request # NoRequest) =>
            /\ llm_request.template = "vote"
            /\ llm_request.rounds_played = Len(conversation_history)
            /\ llm_request.rounds_played = current_round - 1)
    /\ [][ pc = "vote" =>
            /\ conversation_history' = conversation_history
            /\ game_log' = game_log
            /\ current_round' = current_round
            /\ pc' = "idle" =>
                  /\ game_outcome' # <<>>
                  /\ game_outcome'[1].rounds_played = Len(conversation_history)
                  /\ game_outcome'[1].rounds_played = current_round - 1 ]_vars

\* the second voting phase of a game in which a round failed has stored its
\* outcome, and the game goes on
C26_Witness ==
    /\ pc = "idle"
    /\ failures > 0
    /\ voting_conducted
    /\ next_action = "round"
    /\ ~game_complete
    /\ game_outcome # <<>>
    /\ game_outcome[1].rounds_played = 6
    /\ Len(game_log) = 6
    /\ current_round = 7

====
